---------------------------- MODULE Spec2Model ----------------------------
(***************************************************************************)
(* Training-loop orchestration of the fcn repository.                      *)
(*                                                                         *)
(*   scripts/fcn_train.py: class Trainer and the __main__ block            *)
(*   examples/pascal/train_fcn32s.py: main() and TestModeEvaluator         *)
(*                                                                         *)
(* A behaviour of Spec runs one of the two scripts, named by `script`.     *)
(* Each script is one single-threaded process; pc is its position.  The    *)
(* file system (log file, snapshot files, output directory) outlives the   *)
(* process, so a script can be started again on what an earlier run left.  *)
(***************************************************************************)
EXTENDS Integers, Sequences, FiniteSets, TLC

(***************************************************************************)
(* Bounds of the model.                                                    *)
(***************************************************************************)
\* largest label map (in pixels) label_accuracy_score is applied to
MaxPixels == 3
\* largest number of classes label_accuracy_score is applied with
MaxClass == 2
\* largest max_iter a Trainer is constructed with
MaxIter == 3
\* largest test_interval / snapshot period a Trainer is constructed with
MaxInterval == 2
\* largest validation split (len(dataset.val))
MaxVal == 2
\* size of the train split next_batch draws from
NTrain == 1
\* how many times the script is started on the same file system
MaxRuns == 2
\* how many updates of train_fcn32s.py one process is followed for
MaxUpdates == 1010

VARIABLES
    \* ---- scripts/fcn_train.py: Trainer fields and locals
    test_interval,  \* self.test_interval
    max_iter,       \* self.max_iter
    snapshot,       \* self.snapshot
    N_data,         \* len(self.dataset.val)
    pc,             \* position of the process
    i_iter,         \* self.i_iter (NoIter before train() sets it)
    model_train,    \* self.model.train
    params,         \* self.model parameters: how often updated / decayed
    optimizer,      \* self.optimizer state
    grads,          \* gradient arrays of the model
    model_out,      \* self.model.loss / self.model.score of the last forward
    type,           \* argument `type` of _iterate_once
    batch,          \* sample index fetched by next_batch
    ret,            \* return value of _iterate_once
    indice,         \* loop variable of validate()
    result,         \* the accumulator `result` of validate()
    logfile,        \* is self.logfile open
    log,            \* content of snapshot/log.csv, one element per line
    log_dir_exists, \* does the directory 'snapshot' exist
    files,          \* snapshot files, each a name and a content
    trace,          \* operations the running process has performed, in order
    runs,           \* how many times the script was started
    \* ---- examples/pascal/train_fcn32s.py: main()
    script,         \* which of the two scripts the process runs
    resume,         \* args.resume
    out_dir_exists, \* osp.exists(out_dir)
    iteration,      \* trainer.updater.iteration
    steps,          \* updates this process has made
    report,         \* the entries LogReport holds in memory
    eval_ret,       \* what the last TestModeEvaluator.evaluate returned
    \* ---- fcn.util.label_accuracy_score, called by _iterate_once
    label_true,     \* the ground-truth label map, flattened
    label_pred,     \* the predicted label map, flattened
    n_class,        \* number of classes
    score           \* the returned acc, acc_cls, mean_iu, fwavacc

vars == <<test_interval, max_iter, snapshot, N_data, pc, i_iter, model_train,
          params, optimizer, grads, model_out, type, batch, ret, indice,
          result, logfile, log, log_dir_exists, files, trace, runs,
          script, resume, out_dir_exists, iteration, steps, report, eval_ret,
          label_true, label_pred, n_class, score>>

cfgvars == <<test_interval, max_iter, snapshot, N_data>>
fsvars == <<log, log_dir_exists, files>>
\* what only train_fcn32s.py uses, and what only fcn_train.py uses
mainvars == <<script, resume, out_dir_exists, iteration, steps, report, eval_ret>>
metricvars == <<label_true, label_pred, n_class, score>>
traineronly == <<cfgvars, i_iter, grads, model_out, type, batch, ret, indice,
                 result, logfile, log_dir_exists>>

NoIter == -1
NoIndex == -1
Header == "i_iter,type,loss,acc,acc_cls,iu,fwavacc"
NoParams == [updates |-> -1, decays |-> -1]
NoOptimizer == [t |-> -1]
NoOut == [kind |-> "none"]
NoScore == [kind |-> "none"]
\* args.resume when --resume is not passed
ResumeNone == [given |-> FALSE, path |-> <<>>]

\* one entry of trace
Ev(op) == [op |-> op, i |-> i_iter, type |-> type, train |-> model_train]

\* the loss and score the model computes for a sample with given parameters
Forward(ty, idx, p) ==
    [kind |-> "value", split |-> ty, sample |-> idx,
     updates |-> p.updates, decays |-> p.decays]

\* np.array(xs).mean(): nan for an empty list, else the mean of the values
Mean(xs) == IF Len(xs) = 0 THEN [kind |-> "nan"] ELSE [kind |-> "mean", of |-> xs]

\* '{i_iter},{type},{loss},...\n'.format(**log)
Row(i, ty, val) == [i_iter |-> i, type |-> ty, loss |-> val]

SnapshotModelName(i) == <<"fcn8s_", i, ".chainermodel">>
SnapshotOptimizerName(i) == <<"fcn8s_optimizer_", i, ".h5">>

\* S.save_hdf5(path, obj): create or overwrite the file
SaveHdf5(fs, name, content) ==
    {f \in fs : f.name # name} \cup {[name |-> name, content |-> content]}

(***************************************************************************)
(* scripts/fcn_train.py                                                    *)
(***************************************************************************)
InitTrainer ==
    /\ label_true = <<>>
    /\ label_pred = <<>>
    /\ n_class = 0
    /\ score = NoScore
    /\ script = "fcn_train"
    /\ resume = ResumeNone
    /\ out_dir_exists = FALSE
    /\ iteration = 0
    /\ steps = 0
    /\ report = <<>>
    /\ eval_ret = NoOut
    /\ test_interval \in 1..MaxInterval
    /\ max_iter \in 0..MaxIter
    /\ snapshot \in 1..MaxInterval
    /\ N_data \in 0..MaxVal
    /\ pc = "setup_logging"
    /\ i_iter = NoIter
    /\ model_train = FALSE
    /\ params = NoParams
    /\ optimizer = NoOptimizer
    /\ grads = "none"
    /\ model_out = NoOut
    /\ type = "none"
    /\ batch = NoIndex
    /\ ret = NoOut
    /\ indice = NoIndex
    /\ result = <<>>
    /\ logfile = FALSE
    /\ log = <<>>
    /\ log_dir_exists \in BOOLEAN
    /\ files = {}
    /\ trace = <<>>
    /\ runs = 1

\* Trainer._setup_logging
SetupLogging ==
    /\ script = "fcn_train"
    /\ pc = "setup_logging"
    /\ log_dir_exists' = TRUE
    /\ logfile' = TRUE
    /\ log' = <<Header>>
    /\ trace' = Append(trace, Ev("setup_logging"))
    /\ pc' = "setup_pretrained_model"
    /\ UNCHANGED <<metricvars, mainvars, cfgvars, i_iter, model_train, params, optimizer, grads,
                   model_out, type, batch, ret, indice, result, files, runs>>

\* SetupPretrainedModel with the error of the download swallowed
SetupPretrainedModelSwallowsError ==
    /\ script = "fcn_train"
    /\ pc = "setup_pretrained_model"
    /\ \E ok \in BOOLEAN :
          /\ trace' = Append(trace, Ev(IF ok THEN "download" ELSE "download_failed"))
          /\ pc' = "setup_model"
    /\ UNCHANGED <<metricvars, mainvars, cfgvars, fsvars, i_iter, model_train, params,
                   optimizer, grads, model_out, type, batch, ret, indice,
                   result, logfile, runs>>

\* Trainer._setup_pretrained_model: the download succeeds or raises
SetupPretrainedModel ==
    /\ script = "fcn_train"
    /\ pc = "setup_pretrained_model"
    /\ \E ok \in BOOLEAN :
          /\ trace' = Append(trace, Ev(IF ok THEN "download" ELSE "download_failed"))
          /\ pc' = IF ok THEN "setup_model" ELSE "fatal"
          /\ logfile' = IF ok THEN logfile ELSE FALSE
    /\ UNCHANGED <<metricvars, mainvars, cfgvars, fsvars, i_iter, model_train, params, optimizer,
                   grads, model_out, type, batch, ret, indice, result, runs>>

\* Trainer.__init__ after the pretrained model is loaded: dataset, model,
\* copy of the pretrained weights, optimizer
SetupModel ==
    /\ script = "fcn_train"
    /\ pc = "setup_model"
    /\ params' = [updates |-> 0, decays |-> 0]
    /\ model_train' \in BOOLEAN
    /\ optimizer' = [t |-> 0]
    /\ trace' = Append(trace, Ev("build_model"))
    /\ pc' = "loop"
    /\ UNCHANGED <<metricvars, mainvars, cfgvars, fsvars, i_iter, grads, model_out, type, batch,
                   ret, indice, result, logfile, runs>>

\* LoopNext with the validation trigger dropped: validate() at every iteration
LoopNextValidatesAlways ==
    /\ script = "fcn_train"
    /\ pc = "loop"
    /\ i_iter + 1 < max_iter
    /\ i_iter' = i_iter + 1
    /\ pc' = "validate"
    /\ UNCHANGED <<metricvars, mainvars, cfgvars, fsvars, model_train, params, optimizer,
                   grads, model_out, type, batch, ret, indice, result,
                   logfile, trace, runs>>

\* LoopNext with the loop bound off by one: xrange(self.max_iter + 1)
LoopNextOneMore ==
    /\ script = "fcn_train"
    /\ pc = "loop"
    /\ i_iter + 1 < max_iter + 1
    /\ i_iter' = i_iter + 1
    /\ pc' = IF (i_iter + 1) % test_interval = 0 THEN "validate" ELSE "train_step"
    /\ UNCHANGED <<metricvars, mainvars, cfgvars, fsvars, model_train, params, optimizer,
                   grads, model_out, type, batch, ret, indice, result,
                   logfile, trace, runs>>

\* Trainer.train: head of `for i_iter in xrange(self.max_iter)`, the
\* assignment self.i_iter = i_iter and the test of the validation trigger
LoopNext ==
    /\ script = "fcn_train"
    /\ pc = "loop"
    /\ i_iter + 1 < max_iter
    /\ i_iter' = i_iter + 1
    /\ pc' = IF (i_iter + 1) % test_interval = 0 THEN "validate" ELSE "train_step"
    /\ UNCHANGED <<metricvars, mainvars, cfgvars, fsvars, model_train, params, optimizer, grads,
                   model_out, type, batch, ret, indice, result, logfile,
                   trace, runs>>

\* LoopExit saving the model once more when train() returns
LoopExitSavesFinal ==
    /\ script = "fcn_train"
    /\ pc = "loop"
    /\ ~(i_iter + 1 < max_iter)
    /\ pc' = "done"
    /\ logfile' = FALSE
    /\ files' = IF i_iter = NoIter THEN files
                ELSE SaveHdf5(files, SnapshotModelName(i_iter), params)
    /\ UNCHANGED <<metricvars, mainvars, cfgvars, log, log_dir_exists, i_iter,
                   model_train, params, optimizer, grads, model_out, type,
                   batch, ret, indice, result, trace, runs>>

\* Trainer.train: the loop is exhausted, train() returns and the script ends
LoopExit ==
    /\ script = "fcn_train"
    /\ pc = "loop"
    /\ ~(i_iter + 1 < max_iter)
    /\ pc' = "done"
    /\ logfile' = FALSE
    /\ UNCHANGED <<metricvars, mainvars, cfgvars, fsvars, i_iter, model_train, params, optimizer,
                   grads, model_out, type, batch, ret, indice, result, trace,
                   runs>>

\* ValidateBegin without `self.model.train = False`
ValidateBeginKeepsMode ==
    /\ script = "fcn_train"
    /\ pc = "validate"
    /\ type' = "val"
    /\ result' = <<>>
    /\ indice' = 0
    /\ trace' = Append(trace, [Ev("validate") EXCEPT !.type = "val"])
    /\ pc' = "val_loop"
    /\ UNCHANGED <<metricvars, mainvars, cfgvars, fsvars, i_iter, model_train, params,
                   optimizer, grads, model_out, batch, ret, logfile, runs>>

\* ValidateBegin with the accumulators kept from the pass before
ValidateBeginKeepsResult ==
    /\ script = "fcn_train"
    /\ pc = "validate"
    /\ type' = "val"
    /\ model_train' = FALSE
    /\ indice' = 0
    /\ trace' = Append(trace, [Ev("validate") EXCEPT !.type = "val", !.train = FALSE])
    /\ pc' = "val_loop"
    /\ UNCHANGED <<metricvars, mainvars, cfgvars, fsvars, i_iter, params,
                   optimizer, grads, model_out, batch, ret, result, logfile,
                   runs>>

\* Trainer.validate, up to the loop over the validation split
ValidateBegin ==
    /\ script = "fcn_train"
    /\ pc = "validate"
    /\ type' = "val"
    /\ model_train' = FALSE
    /\ result' = <<>>
    /\ indice' = 0
    /\ trace' = Append(trace, [Ev("validate") EXCEPT !.type = "val", !.train = FALSE])
    /\ pc' = "val_loop"
    /\ UNCHANGED <<metricvars, mainvars, cfgvars, fsvars, i_iter, params, optimizer, grads,
                   model_out, batch, ret, logfile, runs>>

\* Trainer.validate: `for indice in xrange(N_data)` calls _iterate_once
ValidateNext ==
    /\ script = "fcn_train"
    /\ pc = "val_loop"
    /\ indice < N_data
    /\ pc' = "fetch"
    /\ UNCHANGED <<metricvars, mainvars, cfgvars, fsvars, i_iter, model_train, params, optimizer,
                   grads, model_out, type, batch, ret, indice, result,
                   logfile, trace, runs>>

\* ValidateAppend also writing a val row for the sample
ValidateAppendWritesRow ==
    /\ script = "fcn_train"
    /\ pc = "val_append"
    /\ result' = Append(result, ret)
    /\ indice' = indice + 1
    /\ log' = Append(log, Row(i_iter, type, ret))
    /\ pc' = "val_loop"
    /\ UNCHANGED <<metricvars, mainvars, cfgvars, log_dir_exists, files, i_iter,
                   model_train, params, optimizer, grads, model_out, type,
                   batch, ret, logfile, trace, runs>>

\* Trainer.validate: the five result[...].append lines
ValidateAppend ==
    /\ script = "fcn_train"
    /\ pc = "val_append"
    /\ result' = Append(result, ret)
    /\ indice' = indice + 1
    /\ pc' = "val_loop"
    /\ UNCHANGED <<metricvars, mainvars, cfgvars, fsvars, i_iter, model_train, params, optimizer,
                   grads, model_out, type, batch, ret, logfile, trace, runs>>

\* Trainer.validate: the means and the val row
ValidateLog ==
    /\ script = "fcn_train"
    /\ pc = "val_loop"
    /\ ~(indice < N_data)
    /\ log' = Append(log, Row(i_iter, type, Mean(result)))
    /\ trace' = Append(trace, Ev("val_log"))
    /\ pc' = "train_step"
    /\ UNCHANGED <<metricvars, mainvars, cfgvars, log_dir_exists, files, i_iter, model_train,
                   params, optimizer, grads, model_out, type, batch, ret,
                   indice, result, logfile, runs>>

\* Trainer.train: type = 'train'; self.model.train = True; call _iterate_once
TrainStep ==
    /\ script = "fcn_train"
    /\ pc = "train_step"
    /\ type' = "train"
    /\ model_train' = TRUE
    /\ pc' = "fetch"
    /\ UNCHANGED <<metricvars, mainvars, cfgvars, fsvars, i_iter, params, optimizer, grads,
                   model_out, batch, ret, indice, result, logfile, trace,
                   runs>>

\* Trainer._iterate_once: next_batch(batch_size=1, type, indices); x and y.
\* Without indices the sample is drawn from the split.
Fetch ==
    /\ script = "fcn_train"
    /\ pc = "fetch"
    /\ \/ type = "val" /\ batch' = indice
       \/ type = "train" /\ batch' \in 0..(NTrain - 1)
    /\ trace' = Append(trace, Ev("fetch"))
    /\ pc' = "optimize"
    /\ UNCHANGED <<metricvars, mainvars, cfgvars, fsvars, i_iter, model_train, params, optimizer,
                   grads, model_out, type, ret, indice, result, logfile, runs>>

\* Optimize with the test of self.model.train dropped: always the update branch
OptimizeIgnoresMode ==
    /\ script = "fcn_train"
    /\ pc = "optimize"
    /\ pc' = "zero_grads"
    /\ UNCHANGED <<metricvars, mainvars, cfgvars, fsvars, i_iter, model_train, params,
                   optimizer, grads, model_out, trace, type, batch, ret,
                   indice, result, logfile, runs>>

\* Trainer._iterate_once: `if self.model.train:` ... `else: self.model(x, y)`
Optimize ==
    /\ script = "fcn_train"
    /\ pc = "optimize"
    /\ IF model_train
          THEN /\ pc' = "zero_grads"
               /\ UNCHANGED <<model_out, trace>>
          ELSE /\ model_out' = Forward(type, batch, params)
               /\ trace' = Append(trace, Ev("forward"))
               /\ pc' = "evaluate"
    /\ UNCHANGED <<metricvars, mainvars, cfgvars, fsvars, i_iter, model_train, params, optimizer,
                   grads, type, batch, ret, indice, result, logfile, runs>>

\* self.optimizer.zero_grads()
ZeroGrads ==
    /\ script = "fcn_train"
    /\ pc = "zero_grads"
    /\ grads' = "zero"
    /\ trace' = Append(trace, Ev("zero_grads"))
    /\ pc' = "update"
    /\ UNCHANGED <<metricvars, mainvars, cfgvars, fsvars, i_iter, model_train, params, optimizer,
                   model_out, type, batch, ret, indice, result, logfile, runs>>

\* Update and WeightDecay exchanged: the decay is applied before the update
UpdateAfterDecay ==
    /\ script = "fcn_train"
    /\ pc = "update"
    /\ model_out' = Forward(type, batch, params)
    /\ grads' = "computed"
    /\ params' = [params EXCEPT !.decays = @ + 1, !.updates = @ + 1]
    /\ optimizer' = [optimizer EXCEPT !.t = @ + 1]
    /\ trace' = trace \o <<Ev("weight_decay"), Ev("update")>>
    /\ pc' = "evaluate"
    /\ UNCHANGED <<metricvars, mainvars, cfgvars, fsvars, i_iter, model_train, type,
                   batch, ret, indice, result, logfile, runs>>

\* self.optimizer.update(self.model, x, y): forward, backward, parameter step
Update ==
    /\ script = "fcn_train"
    /\ pc = "update"
    /\ model_out' = Forward(type, batch, params)
    /\ grads' = "computed"
    /\ params' = [params EXCEPT !.updates = @ + 1]
    /\ optimizer' = [optimizer EXCEPT !.t = @ + 1]
    /\ trace' = Append(trace, Ev("update"))
    /\ pc' = "weight_decay"
    /\ UNCHANGED <<metricvars, mainvars, cfgvars, fsvars, i_iter, model_train, type, batch, ret,
                   indice, result, logfile, runs>>

\* self.optimizer.weight_decay(self.weight_decay)
WeightDecay ==
    /\ script = "fcn_train"
    /\ pc = "weight_decay"
    /\ params' = [params EXCEPT !.decays = @ + 1]
    /\ trace' = Append(trace, Ev("weight_decay"))
    /\ pc' = "evaluate"
    /\ UNCHANGED <<metricvars, mainvars, cfgvars, fsvars, i_iter, model_train, optimizer, grads,
                   model_out, type, batch, ret, indice, result, logfile, runs>>

\* Trainer._iterate_once: label_pred, label_accuracy_score, loss; return
Evaluate ==
    /\ script = "fcn_train"
    /\ pc = "evaluate"
    /\ ret' = model_out
    /\ trace' = Append(trace, Ev("metrics"))
    /\ pc' = IF type = "train" THEN "train_log" ELSE "val_append"
    /\ UNCHANGED <<metricvars, mainvars, cfgvars, fsvars, i_iter, model_train, params, optimizer,
                   grads, model_out, type, batch, indice, result, logfile,
                   runs>>

\* Trainer.train: the train row, then the test of the snapshot trigger
TrainLog ==
    /\ script = "fcn_train"
    /\ pc = "train_log"
    /\ log' = Append(log, Row(i_iter, type, ret))
    /\ trace' = Append(trace, Ev("train_log"))
    /\ pc' = IF i_iter % snapshot = 0 THEN "save_model" ELSE "loop"
    /\ UNCHANGED <<metricvars, mainvars, cfgvars, log_dir_exists, files, i_iter, model_train,
                   params, optimizer, grads, model_out, type, batch, ret,
                   indice, result, logfile, runs>>

\* SaveModel naming the file with the number of updates the model has had
SaveModelTagsUpdates ==
    /\ script = "fcn_train"
    /\ pc = "save_model"
    /\ files' = SaveHdf5(files, SnapshotModelName(params.updates), params)
    /\ trace' = Append(trace, Ev("save_model"))
    /\ pc' = "save_optimizer"
    /\ UNCHANGED <<metricvars, mainvars, cfgvars, log, log_dir_exists, i_iter,
                   model_train, params, optimizer, grads, model_out, type,
                   batch, ret, indice, result, logfile, runs>>

\* S.save_hdf5(snapshot_model, self.model)
SaveModel ==
    /\ script = "fcn_train"
    /\ pc = "save_model"
    /\ files' = SaveHdf5(files, SnapshotModelName(i_iter), params)
    /\ trace' = Append(trace, Ev("save_model"))
    /\ pc' = "save_optimizer"
    /\ UNCHANGED <<metricvars, mainvars, cfgvars, log, log_dir_exists, i_iter, model_train, params,
                   optimizer, grads, model_out, type, batch, ret, indice,
                   result, logfile, runs>>

\* SaveOptimizer naming the file with the tag of the first snapshot
SaveOptimizerStaleTag ==
    /\ script = "fcn_train"
    /\ pc = "save_optimizer"
    /\ files' = SaveHdf5(files, SnapshotOptimizerName(0), optimizer)
    /\ trace' = Append(trace, Ev("save_optimizer"))
    /\ pc' = "loop"
    /\ UNCHANGED <<metricvars, mainvars, cfgvars, log, log_dir_exists, i_iter,
                   model_train, params, optimizer, grads, model_out, type,
                   batch, ret, indice, result, logfile, runs>>

\* S.save_hdf5(snapshot_optimizer, self.optimizer)
SaveOptimizer ==
    /\ script = "fcn_train"
    /\ pc = "save_optimizer"
    /\ files' = SaveHdf5(files, SnapshotOptimizerName(i_iter), optimizer)
    /\ trace' = Append(trace, Ev("save_optimizer"))
    /\ pc' = "loop"
    /\ UNCHANGED <<metricvars, mainvars, cfgvars, log, log_dir_exists, i_iter, model_train, params,
                   optimizer, grads, model_out, type, batch, ret, indice,
                   result, logfile, runs>>

\* the __main__ block run once more, on the files the earlier run left
Restart ==
    /\ script = "fcn_train"
    /\ pc \in {"done", "fatal"}
    /\ runs < MaxRuns
    /\ runs' = runs + 1
    /\ pc' = "setup_logging"
    /\ i_iter' = NoIter
    /\ model_train' = FALSE
    /\ params' = NoParams
    /\ optimizer' = NoOptimizer
    /\ grads' = "none"
    /\ model_out' = NoOut
    /\ type' = "none"
    /\ batch' = NoIndex
    /\ ret' = NoOut
    /\ indice' = NoIndex
    /\ result' = <<>>
    /\ logfile' = FALSE
    /\ trace' = <<>>
    /\ UNCHANGED <<metricvars, mainvars, cfgvars, fsvars>>

(***************************************************************************)
(* examples/pascal/train_fcn32s.py                                         *)
(***************************************************************************)
\* max_iter = 100000, the stop trigger of the trainer
MainMaxIter == 100000
\* trigger of TestModeEvaluator
EvalPeriod == 1000
\* trigger of extensions.snapshot
SnapshotPeriod == 1000
\* trigger of extensions.LogReport
LogPeriod == 10

\* the other values of args.resume: an empty string or a path
ResumeEmpty == [given |-> TRUE, path |-> <<>>]
SnapshotName(k) == <<"snapshot_iter_", k, ".npz">>
ResumePath(k) == [given |-> TRUE, path |-> SnapshotName(k)]
ResumeArgs ==
    {ResumeNone, ResumeEmpty, ResumePath(SnapshotPeriod), ResumePath(2 * SnapshotPeriod)}

\* truth value of args.resume in `if not resume` and `if resume`
Truthy(r) == r.given /\ r.path # <<>>

\* a trigger (period, 'iteration') seen at updater.iteration = it
IntervalTrigger(period, it) == it > 0 /\ it % period = 0

\* what extensions.snapshot serializes of the trainer
TrainerState == [iteration |-> iteration, params |-> params,
                 optimizer |-> optimizer, report |-> report]

InitMain ==
    /\ label_true = <<>>
    /\ label_pred = <<>>
    /\ n_class = 0
    /\ score = NoScore
    /\ script = "train_fcn32s"
    /\ resume \in ResumeArgs
    /\ out_dir_exists \in BOOLEAN
    /\ iteration = 0
    /\ steps = 0
    /\ report = <<>>
    /\ eval_ret = NoOut
    /\ test_interval = 1
    /\ max_iter = 0
    /\ snapshot = 1
    /\ N_data = 0
    /\ pc = "check_out_dir"
    /\ i_iter = NoIter
    /\ model_train = FALSE
    /\ params = NoParams
    /\ optimizer = NoOptimizer
    /\ grads = "none"
    /\ model_out = NoOut
    /\ type = "none"
    /\ batch = NoIndex
    /\ ret = NoOut
    /\ indice = NoIndex
    /\ result = <<>>
    /\ logfile = FALSE
    /\ log = <<>>
    /\ log_dir_exists = FALSE
    /\ files = {}
    /\ trace = <<>>
    /\ runs = 1

\* CheckOutDir with `not resume` dropped: raises whenever the directory exists
CheckOutDirIgnoresResume ==
    /\ script = "train_fcn32s"
    /\ pc = "check_out_dir"
    /\ IF out_dir_exists
          THEN /\ pc' = "fatal"
               /\ trace' = Append(trace, Ev("raise_result_dir_exists"))
          ELSE /\ pc' = "datasets"
               /\ trace' = Append(trace, Ev("check_out_dir"))
    /\ UNCHANGED <<metricvars, mainvars, traineronly, model_train, params, optimizer,
                   log, files, runs>>

\* main: `if not resume and osp.exists(out_dir): raise RuntimeError`
CheckOutDir ==
    /\ script = "train_fcn32s"
    /\ pc = "check_out_dir"
    /\ IF ~Truthy(resume) /\ out_dir_exists
          THEN /\ pc' = "fatal"
               /\ trace' = Append(trace, Ev("raise_result_dir_exists"))
          ELSE /\ pc' = "datasets"
               /\ trace' = Append(trace, Ev("check_out_dir"))
    /\ UNCHANGED <<metricvars, mainvars, traineronly, model_train, params, optimizer,
                   log, files, runs>>

\* main: 1. dataset (the two datasets and their iterators)
LoadDatasets ==
    /\ script = "train_fcn32s"
    /\ pc = "datasets"
    /\ trace' = Append(trace, Ev("datasets"))
    /\ pc' = "download"
    /\ UNCHANGED <<metricvars, mainvars, traineronly, model_train, params, optimizer,
                   log, files, runs>>

\* main: fcn.data.download_vgg16_chainermodel() and load_hdf5 of the result;
\* the download succeeds or raises
DownloadVgg ==
    /\ script = "train_fcn32s"
    /\ pc = "download"
    /\ \E ok \in BOOLEAN :
          /\ trace' = Append(trace, Ev(IF ok THEN "download" ELSE "download_failed"))
          /\ pc' = IF ok THEN "build_model" ELSE "fatal"
    /\ UNCHANGED <<metricvars, mainvars, traineronly, model_train, params, optimizer,
                   log, files, runs>>

\* main: model = FCN32s(); model.train = True; copy_chainermodel; 3. optimizer
BuildModel ==
    /\ script = "train_fcn32s"
    /\ pc = "build_model"
    /\ params' = [updates |-> 0, decays |-> 0]
    /\ model_train' = TRUE
    /\ optimizer' = [t |-> 0]
    /\ trace' = Append(trace, Ev("build_model"))
    /\ pc' = "build_trainer"
    /\ UNCHANGED <<metricvars, mainvars, traineronly, log, files, runs>>

\* main: 4. trainer (updater, trainer and its extensions)
BuildTrainer ==
    /\ script = "train_fcn32s"
    /\ pc = "build_trainer"
    /\ iteration' = 0
    /\ report' = <<>>
    /\ trace' = Append(trace, Ev("build_trainer"))
    /\ pc' = "resume"
    /\ UNCHANGED <<metricvars, script, resume, out_dir_exists, steps, eval_ret,
                   traineronly, model_train, params, optimizer, log, files,
                   runs>>

\* LoadResume restoring model, optimizer and log but not updater.iteration
LoadResumeLosesIteration ==
    /\ script = "train_fcn32s"
    /\ pc = "resume"
    /\ IF Truthy(resume)
          THEN IF \E f \in files : f.name = resume.path
                  THEN LET f == CHOOSE g \in files : g.name = resume.path
                       IN  /\ params' = f.content.params
                           /\ optimizer' = f.content.optimizer
                           /\ report' = f.content.report
                           /\ trace' = Append(trace, Ev("load_npz"))
                           /\ pc' = "run"
                           /\ UNCHANGED iteration
                  ELSE /\ trace' = Append(trace, Ev("load_npz_failed"))
                       /\ pc' = "fatal"
                       /\ UNCHANGED <<iteration, params, optimizer, report>>
          ELSE /\ pc' = "run"
               /\ UNCHANGED <<iteration, params, optimizer, report, trace>>
    /\ UNCHANGED <<metricvars, script, resume, out_dir_exists, steps, eval_ret,
                   traineronly, model_train, log, files, runs>>

\* main: `if resume: chainer.serializers.load_npz(resume, trainer)`
LoadResume ==
    /\ script = "train_fcn32s"
    /\ pc = "resume"
    /\ IF Truthy(resume)
          THEN IF \E f \in files : f.name = resume.path
                  THEN LET f == CHOOSE g \in files : g.name = resume.path
                       IN  /\ iteration' = f.content.iteration
                           /\ params' = f.content.params
                           /\ optimizer' = f.content.optimizer
                           /\ report' = f.content.report
                           /\ trace' = Append(trace, Ev("load_npz"))
                           /\ pc' = "run"
                  ELSE /\ trace' = Append(trace, Ev("load_npz_failed"))
                       /\ pc' = "fatal"
                       /\ UNCHANGED <<iteration, params, optimizer, report>>
          ELSE /\ pc' = "run"
               /\ UNCHANGED <<iteration, params, optimizer, report, trace>>
    /\ UNCHANGED <<metricvars, script, resume, out_dir_exists, steps, eval_ret,
                   traineronly, model_train, log, files, runs>>

\* trainer.run(): the output directory is created before the loop
RunBegin ==
    /\ script = "train_fcn32s"
    /\ pc = "run"
    /\ out_dir_exists' = TRUE
    /\ trace' = Append(trace, Ev("run"))
    /\ pc' = "main_loop"
    /\ UNCHANGED <<metricvars, script, resume, iteration, steps, report, eval_ret,
                   traineronly, model_train, params, optimizer, log, files,
                   runs>>

\* trainer.run(): one update of the StandardUpdater, weight decay hooked in
UpdaterUpdate ==
    /\ script = "train_fcn32s"
    /\ pc = "main_loop"
    /\ ~IntervalTrigger(MainMaxIter, iteration)
    /\ steps < MaxUpdates
    /\ params' = [updates |-> params.updates + 1, decays |-> params.decays + 1]
    /\ optimizer' = [optimizer EXCEPT !.t = @ + 1]
    /\ iteration' = iteration + 1
    /\ steps' = steps + 1
    /\ pc' = "ext_evaluator"
    /\ UNCHANGED <<metricvars, script, resume, out_dir_exists, report, eval_ret,
                   traineronly, model_train, log, files, trace, runs>>

\* trainer.run(): the loop ends, by the stop trigger or because the process
\* is stopped once it has made MaxUpdates updates
RunEnd ==
    /\ script = "train_fcn32s"
    /\ pc = "main_loop"
    /\ IntervalTrigger(MainMaxIter, iteration) \/ steps = MaxUpdates
    /\ pc' = "done"
    /\ UNCHANGED <<metricvars, mainvars, traineronly, model_train, params, optimizer,
                   log, files, trace, runs>>

\* trainer.extend(TestModeEvaluator(...), trigger=(1000, 'iteration'))
ExtEvaluator ==
    /\ script = "train_fcn32s"
    /\ pc = "ext_evaluator"
    /\ pc' = IF IntervalTrigger(EvalPeriod, iteration) THEN "test_mode_evaluate" ELSE "ext_log"
    /\ UNCHANGED <<metricvars, mainvars, traineronly, model_train, params, optimizer,
                   log, files, trace, runs>>

\* TestModeEvaluator.evaluate: model = self.get_target('main');
\* model.train = False.  The event keeps the flag found at entry.
EvaluateBegin ==
    /\ script = "train_fcn32s"
    /\ pc = "test_mode_evaluate"
    /\ model_train' = FALSE
    /\ trace' = Append(trace, Ev("evaluate"))
    /\ pc' = "evaluate_super"
    /\ UNCHANGED <<metricvars, mainvars, traineronly, params, optimizer, log, files,
                   runs>>

\* EvaluateSuper with the flag set back in a `finally:` when the wrapped
\* evaluation raises
EvaluateSuperRestoresFlag ==
    /\ script = "train_fcn32s"
    /\ pc = "evaluate_super"
    /\ \E ok \in BOOLEAN :
          IF ok
             THEN /\ ret' = [kind |-> "mean", train |-> model_train,
                             updates |-> params.updates, decays |-> params.decays]
                  /\ pc' = "evaluate_end"
                  /\ UNCHANGED <<trace, model_train>>
             ELSE /\ model_train' = TRUE
                  /\ trace' = Append(trace, [Ev("evaluate_failed") EXCEPT !.train = TRUE])
                  /\ pc' = "fatal"
                  /\ UNCHANGED ret
    /\ UNCHANGED <<metricvars, mainvars, cfgvars, i_iter, grads, model_out,
                   type, batch, indice, result, logfile, log_dir_exists,
                   params, optimizer, log, files, runs>>

\* TestModeEvaluator.evaluate: ret = super().evaluate(), which returns the
\* mean over the validation split or raises
EvaluateSuper ==
    /\ script = "train_fcn32s"
    /\ pc = "evaluate_super"
    /\ \E ok \in BOOLEAN :
          IF ok
             THEN /\ ret' = [kind |-> "mean", train |-> model_train,
                             updates |-> params.updates, decays |-> params.decays]
                  /\ pc' = "evaluate_end"
                  /\ UNCHANGED trace
             ELSE /\ trace' = Append(trace, Ev("evaluate_failed"))
                  /\ pc' = "fatal"
                  /\ UNCHANGED ret
    /\ UNCHANGED <<metricvars, mainvars, cfgvars, i_iter, grads, model_out, type, batch,
                   indice, result, logfile, log_dir_exists, model_train,
                   params, optimizer, log, files, runs>>

\* EvaluateEnd without `model.train = True`
EvaluateEndKeepsFlag ==
    /\ script = "train_fcn32s"
    /\ pc = "evaluate_end"
    /\ eval_ret' = ret
    /\ pc' = "ext_log"
    /\ UNCHANGED <<metricvars, script, resume, out_dir_exists, iteration,
                   steps, report, traineronly, model_train, params, optimizer,
                   log, files, trace, runs>>

\* TestModeEvaluator.evaluate: model.train = True; return ret
EvaluateEnd ==
    /\ script = "train_fcn32s"
    /\ pc = "evaluate_end"
    /\ model_train' = TRUE
    /\ eval_ret' = ret
    /\ pc' = "ext_log"
    /\ UNCHANGED <<metricvars, script, resume, out_dir_exists, iteration, steps, report,
                   traineronly, params, optimizer, log, files, trace, runs>>

\* trainer.extend(LogReport(trigger=(10, 'iteration'), log_name='log.json')):
\* an entry is added and log.json rewritten from the entries held
ExtLogReport ==
    /\ script = "train_fcn32s"
    /\ pc = "ext_log"
    /\ IF IntervalTrigger(LogPeriod, iteration)
          THEN /\ report' = Append(report, [iteration |-> iteration,
                                            validation |-> eval_ret])
               /\ log' = report'
               /\ eval_ret' = NoOut
          ELSE UNCHANGED <<report, log, eval_ret>>
    /\ pc' = "ext_snapshot"
    /\ UNCHANGED <<metricvars, script, resume, out_dir_exists, iteration, steps,
                   traineronly, model_train, params, optimizer, files, trace,
                   runs>>

\* trainer.extend(extensions.snapshot(
\*     filename='snapshot_iter_{.updater.iteration}.npz',
\*     trigger=(1000, 'iteration')))
ExtSnapshot ==
    /\ script = "train_fcn32s"
    /\ pc = "ext_snapshot"
    /\ IF IntervalTrigger(SnapshotPeriod, iteration)
          THEN files' = SaveHdf5(files, SnapshotName(iteration), TrainerState)
          ELSE UNCHANGED files
    /\ pc' = "main_loop"
    /\ UNCHANGED <<metricvars, mainvars, traineronly, model_train, params, optimizer,
                   log, trace, runs>>

\* main() run once more, with new arguments, on the files the earlier run left
RestartMain ==
    /\ script = "train_fcn32s"
    /\ pc \in {"done", "fatal"}
    /\ runs < MaxRuns
    /\ runs' = runs + 1
    /\ resume' \in ResumeArgs
    /\ pc' = "check_out_dir"
    /\ iteration' = 0
    /\ steps' = 0
    /\ report' = <<>>
    /\ eval_ret' = NoOut
    /\ ret' = NoOut
    /\ model_train' = FALSE
    /\ params' = NoParams
    /\ optimizer' = NoOptimizer
    /\ trace' = <<>>
    /\ UNCHANGED <<metricvars, script, out_dir_exists, cfgvars, i_iter, grads, model_out,
                   type, batch, indice, result, logfile, log_dir_exists, log,
                   files>>

Next ==
    \/ SetupLogging
    \/ SetupPretrainedModel
    \/ SetupModel
    \/ LoopNext
    \/ LoopExit
    \/ ValidateBegin
    \/ ValidateNext
    \/ ValidateAppend
    \/ ValidateLog
    \/ TrainStep
    \/ Fetch
    \/ Optimize
    \/ ZeroGrads
    \/ Update
    \/ WeightDecay
    \/ Evaluate
    \/ TrainLog
    \/ SaveModel
    \/ SaveOptimizer
    \/ Restart
    \/ CheckOutDir
    \/ LoadDatasets
    \/ DownloadVgg
    \/ BuildModel
    \/ BuildTrainer
    \/ LoadResume
    \/ RunBegin
    \/ UpdaterUpdate
    \/ RunEnd
    \/ ExtEvaluator
    \/ EvaluateBegin
    \/ EvaluateSuper
    \/ EvaluateEnd
    \/ ExtLogReport
    \/ ExtSnapshot
    \/ RestartMain

Init == InitTrainer \/ InitMain

Spec == Init /\ [][Next]_vars

\* the steps of one process of fcn_train.py: a process that can take a step
\* takes it (the script is single-threaded and nothing makes it wait)
TrainerProcess ==
    \/ SetupLogging
    \/ SetupPretrainedModel
    \/ SetupModel
    \/ LoopNext
    \/ LoopExit
    \/ ValidateBegin
    \/ ValidateNext
    \/ ValidateAppend
    \/ ValidateLog
    \/ TrainStep
    \/ Fetch
    \/ Optimize
    \/ ZeroGrads
    \/ Update
    \/ WeightDecay
    \/ Evaluate
    \/ TrainLog
    \/ SaveModel
    \/ SaveOptimizer

NextTrainer == TrainerProcess \/ Restart

\* fcn_train.py alone, its process running on as long as it can
SpecTrainer == InitTrainer /\ [][NextTrainer]_vars /\ WF_vars(TrainerProcess)

(***************************************************************************)
(* Properties                                                              *)
(***************************************************************************)
IsPrefix(a, b) == Len(a) <= Len(b) /\ \A k \in 1..Len(a) : a[k] = b[k]
Last(sq) == sq[Len(sq)]
OpsOf(names) == {k \in DOMAIN trace : trace[k].op \in names}
InTrainer == script = "fcn_train"
InMain == script = "train_fcn32s"
InIterateOnce ==
    pc \in {"fetch", "optimize", "zero_grads", "update", "weight_decay", "evaluate"}
UpdateOps == {"zero_grads", "update", "weight_decay"}
\* the process is inside validate(), its first statement not yet or its last
\* statement not yet executed
InValidate ==
    /\ InTrainer
    /\ \/ pc \in {"validate", "val_loop", "val_append"}
       \/ InIterateOnce /\ type = "val"

\* C1: every _iterate_once call made by train() runs with model.train = True,
\* every one made by validate() with model.train = False, and zero_grads,
\* update and weight_decay are only ever performed with the flag True, by a
\* call that train() made.
C1_PhaseMatchesCaller ==
    InTrainer =>
       /\ InIterateOnce => (model_train <=> type = "train")
       /\ pc \in UpdateOps => model_train /\ type = "train"
       /\ \A k \in OpsOf({"fetch", "forward", "metrics"} \cup UpdateOps) :
             trace[k].train <=> trace[k].type = "train"
       /\ \A k \in OpsOf(UpdateOps) : trace[k].train /\ trace[k].type = "train"
       /\ \A k \in OpsOf({"forward"}) : trace[k].type = "val"

\* a validation sample is being evaluated after parameters were updated
C1_Witness ==
    /\ InTrainer /\ pc = "evaluate" /\ type = "val" /\ ~model_train
    /\ params.updates > 0
    /\ OpsOf({"update"}) # {}

\* C2: no step taken inside validate(), from its first statement to its
\* last, changes the model parameters, the optimizer state, the gradients
\* or i_iter.
C2_ValidateChangesNothing ==
    [][InValidate => UNCHANGED <<params, optimizer, grads, i_iter>>]_vars

\* a validation pass over two samples has evaluated its last sample, after
\* training steps were made
C2_Witness ==
    /\ InTrainer /\ pc = "val_loop" /\ N_data = 2 /\ indice = N_data
    /\ Len(result) = 2 /\ params.updates > 0

\* C3: validate() is entered at iteration i only when i % test_interval = 0;
\* the training step of such an i starts right after the val row of i is
\* written, and of any other i without a validation pass; what follows a
\* validation pass is the training step of the same i, run with
\* model.train = True.
C3_ValidationEveryInterval ==
    InTrainer =>
       /\ \A k \in OpsOf({"validate"}) : trace[k].i % test_interval = 0
       /\ \A k \in OpsOf({"fetch"}) :
             trace[k].type = "train" =>
                IF trace[k].i % test_interval = 0
                   THEN /\ k > 1
                        /\ trace[k - 1].op = "val_log"
                        /\ trace[k - 1].i = trace[k].i
                   ELSE \A j \in OpsOf({"validate", "val_log"}) :
                           trace[j].i # trace[k].i
       /\ \A k \in OpsOf({"val_log"}) :
             IF k = Len(trace)
                THEN pc \in {"train_step", "fetch"} /\ i_iter = trace[k].i
                ELSE /\ trace[k + 1].op = "fetch"
                     /\ trace[k + 1].type = "train"
                     /\ trace[k + 1].train
                     /\ trace[k + 1].i = trace[k].i
       /\ (pc = "fetch" /\ trace # <<>> /\ Last(trace).op = "val_log") =>
             type = "train" /\ model_train

\* the second validation pass of a run with test_interval = 2 was followed by
\* a training step
C3_Witness ==
    /\ InTrainer /\ test_interval = 2
    /\ \E k \in OpsOf({"val_log"}) : trace[k].i = 2 /\ k < Len(trace)

\* the operations of the training step of iteration i, in the order made
TrainStepOps(i) ==
    LET mine(e) == e.i = i /\ e.type = "train"
                   /\ e.op \in {"fetch", "update", "weight_decay", "metrics", "train_log"}
        evs == SelectSeq(trace, mine)
    IN  [k \in 1..Len(evs) |-> evs[k].op]
StepOrder == <<"fetch", "update", "weight_decay", "metrics", "train_log">>

\* C4: the operations of every training iteration are made in the order
\* fetch from the train split, update, weight decay, metrics, train row, each
\* once; one sample is fetched; and nothing of an iteration is done before the
\* train row of the iteration before it is written.
C4_StepOrder ==
    InTrainer =>
       /\ \A i \in 0..MaxIter : IsPrefix(TrainStepOps(i), StepOrder)
       /\ \A k \in OpsOf({"fetch"}) :
             trace[k].type = "train" => trace[k].train
       /\ (pc \in {"optimize", "zero_grads", "update"} /\ type = "train") =>
             batch \in 0..(NTrain - 1)
       /\ \A k \in 2..Len(trace) :
             trace[k].i # trace[k - 1].i =>
                /\ trace[k].i = trace[k - 1].i + 1
                /\ trace[k].i > 0 =>
                      \E j \in 1..(k - 1) :
                         trace[j].op = "train_log" /\ trace[j].i = trace[k].i - 1
       /\ \A i \in 0..MaxIter :
             Cardinality({k \in OpsOf({"train_log"}) : trace[k].i = i}) <= 1

\* the second training iteration has made all five operations
C4_Witness ==
    InTrainer /\ TrainStepOps(1) = StepOrder /\ pc = "loop"

ModelFileTags == {f.name[2] : f \in {g \in files : g.name[1] = "fcn8s_"}}
OptimizerFileTags == {f.name[2] : f \in {g \in files : g.name[1] = "fcn8s_optimizer_"}}

\* C5: a snapshot is written at iteration i exactly when i % snapshot = 0,
\* right after the train row of i; it is a model file followed by an
\* optimizer file, both named with i; and one run writes no tag twice.
C5_SnapshotEveryPeriod ==
    InTrainer =>
       /\ \A k \in OpsOf({"save_model"}) :
             /\ trace[k].i % snapshot = 0
             /\ k > 1
             /\ trace[k - 1].op = "train_log"
             /\ trace[k - 1].i = trace[k].i
             /\ trace[k].i \in ModelFileTags
             /\ IF k = Len(trace)
                   THEN pc = "save_optimizer" /\ i_iter = trace[k].i
                   ELSE /\ trace[k + 1].op = "save_optimizer"
                        /\ trace[k + 1].i = trace[k].i
       /\ \A k \in OpsOf({"save_optimizer"}) :
             /\ k > 1
             /\ trace[k - 1].op = "save_model"
             /\ trace[k].i \in OptimizerFileTags
       /\ \A k \in OpsOf({"train_log"}) :
             trace[k].i % snapshot = 0 =>
                IF k = Len(trace)
                   THEN pc = "save_model" /\ i_iter = trace[k].i
                   ELSE trace[k + 1].op = "save_model"
       /\ pc # "save_optimizer" => ModelFileTags = OptimizerFileTags
       /\ \A j, k \in OpsOf({"save_model"}) :
             trace[j].i = trace[k].i => j = k

\* with snapshot = 2 the second snapshot of a run, tagged 2, is complete
C5_Witness ==
    /\ InTrainer /\ snapshot = 2 /\ pc = "loop" /\ i_iter = 2
    /\ \E k \in OpsOf({"save_optimizer"}) : trace[k].i = 2
    /\ {0, 2} \subseteq ModelFileTags

Rows == Tail(log)
IsTrainRow(r) == r.type = "train"
IsValRow(r) == r.type = "val"
TrainRows == SelectSeq(Rows, IsTrainRow)
ValRows == SelectSeq(Rows, IsValRow)

\* C6: between loop iterations, after k of them, the log is the header line,
\* then k train rows with i_iter = 0..k-1 in this order and one val row for
\* each validation pass made, which are those of the i < k with
\* i % test_interval = 0; with test_interval = 1 and two validation samples
\* that is one train row and one val row after the first iteration.
C6_OneRowPerStep ==
    (InTrainer /\ pc \in {"loop", "done"}) =>
       LET k == i_iter + 1
       IN  /\ log[1] = Header
           /\ Len(TrainRows) = k
           /\ \A j \in 1..Len(TrainRows) : TrainRows[j].i_iter = j - 1
           /\ Len(ValRows) = Cardinality(OpsOf({"val_log"}))
           /\ Len(ValRows) = Cardinality({i \in 0..(k - 1) : i % test_interval = 0})
           /\ Len(log) = 1 + Len(TrainRows) + Len(ValRows)
           /\ (test_interval = 1 /\ N_data = 2 /\ k = 1) =>
                 /\ Len(log) = 3
                 /\ log[2].type = "val" /\ log[2].loss.kind = "mean"
                 /\ Len(log[2].loss.of) = 2
                 /\ log[3].type = "train"

\* validation every iteration, two validation samples, first iteration over
C6_Witness ==
    /\ InTrainer /\ pc = "loop" /\ i_iter = 0
    /\ test_interval = 1 /\ N_data = 2 /\ Len(log) = 3

\* C7: no step of fcn_train.py changes or removes a line the log file
\* holds: the log before a step is a prefix of the log after it.
C7_LogAppendOnly ==
    [][InTrainer => IsPrefix(log, log')]_vars

\* the run resumed from the snapshot args.resume names
Resumed == InMain /\ OpsOf({"load_npz"}) # {}
\* the iteration the snapshot named by args.resume was saved at
ResumeK == resume.path[2]
\* the entries of LogReport that the snapshot held
RestoredEntries ==
    LET f == CHOOSE g \in files : g.name = resume.path
    IN  f.content.report
\* the entries the running process has added
NewEntries == SubSeq(report, Len(RestoredEntries) + 1, Len(report))

ResumePathGiven == resume # ResumeNone /\ resume # ResumeEmpty
StartupState == <<params, optimizer, model_train, iteration, steps, report,
                  eval_ret, log, files, out_dir_exists>>

\* C9: the check of the output directory is the first thing main() does; when
\* the directory exists and no resume path was given it raises, changing
\* nothing, and the process does nothing more; otherwise it raises nothing and
\* main() goes on to load the datasets.
C9_OutDirCheckFirst ==
    [][/\ (InMain /\ pc = "check_out_dir") =>
             /\ trace = <<>> /\ steps = 0 /\ params = NoParams
             /\ optimizer = NoOptimizer /\ report = <<>>
             /\ IF ~ResumePathGiven /\ out_dir_exists
                   THEN /\ pc' = "fatal"
                        /\ Len(trace') = 1
                        /\ trace'[1].op = "raise_result_dir_exists"
                        /\ UNCHANGED StartupState
                   ELSE /\ pc' = "datasets"
                        /\ trace'[1].op = "check_out_dir"
       /\ (InMain /\ pc = "fatal") => (pc' = "check_out_dir" /\ runs' = runs + 1)
      ]_vars

\* main() was started again without --resume on the directory an earlier run
\* filled, and raised
C9_Witness ==
    /\ InMain /\ pc = "fatal" /\ runs = 2 /\ ~ResumePathGiven /\ out_dir_exists
    /\ Len(trace) = 1 /\ trace[1].op = "raise_result_dir_exists"
    /\ files # {}

ProducingOps ==
    {"validate", "val_log", "fetch", "forward", "zero_grads", "update", "weight_decay",
     "metrics", "train_log", "save_model", "save_optimizer", "build_trainer",
     "load_npz", "run"}

\* C10: a process attempts the download at most once, builds the model only
\* after it succeeded, and when it failed the process is over: it has built no
\* model, optimizer or trainer, made no training step and no validation pass,
\* written no log row and no snapshot.
C10_DownloadFailureFatal ==
    /\ Cardinality(OpsOf({"download", "download_failed"})) <= 1
    /\ \A k \in OpsOf({"build_model"}) :
          \E j \in 1..(k - 1) : trace[j].op = "download"
    /\ \A k \in OpsOf({"download_failed"}) :
          /\ k = Len(trace)
          /\ pc = "fatal"
          /\ OpsOf(ProducingOps \cup {"build_model", "download"}) = {}
          /\ params = NoParams /\ optimizer = NoOptimizer
          /\ i_iter = NoIter /\ steps = 0 /\ iteration = 0 /\ report = <<>>
          /\ InTrainer => log = <<Header>> /\ ~logfile
    /\ pc \in {"setup_model", "build_model"} =>
          Cardinality(OpsOf({"download"})) = 1

\* the download failed in a run of fcn_train.py started on the files an
\* earlier, complete run left
C10_Witness ==
    /\ InTrainer /\ pc = "fatal" /\ runs = 2 /\ files # {}
    /\ Last(trace).op = "download_failed"

\* the iterations of the operations `op` the process has made, in order
ItersOf(op) ==
    LET mine(e) == e.op = op
        evs == SelectSeq(trace, mine)
    IN  [k \in 1..Len(evs) |-> evs[k].i]
UpTo(n) == [k \in 1..n |-> k - 1]

\* C11: train() ends, and every validation pass it starts ends; the training
\* steps made are those of i_iter = 0, 1, 2, ... in this order, each once,
\* and when train() has ended they are exactly those of 0..max_iter-1.
C11_TrainTerminates ==
    /\ [](InTrainer =>
            /\ i_iter < max_iter
            /\ ItersOf("update") = UpTo(Len(ItersOf("update")))
            /\ ItersOf("train_log") = UpTo(Len(ItersOf("train_log")))
            /\ Len(ItersOf("update")) <= max_iter
            /\ pc = "done" =>
                  /\ ItersOf("update") = UpTo(max_iter)
                  /\ ItersOf("weight_decay") = UpTo(max_iter)
                  /\ ItersOf("train_log") = UpTo(max_iter)
                  /\ params.updates = max_iter
                  /\ i_iter = max_iter - 1)
    /\ (InTrainer /\ pc = "loop" /\ i_iter = NoIter) ~> (pc = "done")
    /\ (InTrainer /\ pc = "validate") ~> (pc = "train_step")

\* train() has returned after three iterations, two of them with a
\* validation pass over two samples
C11_Witness ==
    /\ InTrainer /\ pc = "done" /\ max_iter = 3 /\ test_interval = 2
    /\ N_data = 2 /\ params.updates = 3
    /\ Cardinality(OpsOf({"val_log"})) = 2

(***************************************************************************)
(* fcn.util.label_accuracy_score, as section 4.2 of the specification      *)
(* describes it.  A statistic is a fraction num/den of pixel counts; one   *)
(* with den = 0 is NaN.                                                    *)
(***************************************************************************)
\* the ignored-pixel sentinel of a ground-truth map
IgnoreLabel == -1
Frac(n, d) == [num |-> n, den |-> d]
IsNaN(f) == f.den = 0
IsOne(f) == f.den # 0 /\ f.num = f.den

\* the pixels that count: those whose ground truth is a class, not the sentinel
ValidPixels(lt, n) == {k \in 1..Len(lt) : lt[k] >= 0 /\ lt[k] < n}
\* confusion matrix: pixels of class a predicted as class b
Hist(lt, lp, n, a, b) ==
    Cardinality({k \in ValidPixels(lt, n) : lt[k] = a /\ lp[k] = b})
RowSum(lt, lp, n, a) == Cardinality({k \in ValidPixels(lt, n) : lt[k] = a})
ColSum(lt, lp, n, b) == Cardinality({k \in ValidPixels(lt, n) : lp[k] = b})

RECURSIVE SumFrac(_, _)
\* the sum of the statistics f[c], c in S, none of them NaN
SumFrac(f, S) ==
    IF S = {} THEN Frac(0, 1)
    ELSE LET c == CHOOSE x \in S : TRUE
             r == SumFrac(f, S \ {c})
         IN  Frac(f[c].num * r.den + r.num * f[c].den, f[c].den * r.den)

\* NanMean counting a NaN entry as 0 instead of leaving it out
NanMeanCountsNaN(f, S) ==
    LET defined == {c \in S : ~IsNaN(f[c])}
        sum == SumFrac(f, defined)
    IN  IF defined = {} THEN Frac(0, 0)
        ELSE Frac(sum.num, sum.den * Cardinality(S))

\* the mean of the statistics that are not NaN; NaN when all are
NanMean(f, S) ==
    LET defined == {c \in S : ~IsNaN(f[c])}
        sum == SumFrac(f, defined)
    IN  IF defined = {} THEN Frac(0, 0)
        ELSE Frac(sum.num, sum.den * Cardinality(defined))

\* acc, acc_cls, mean_iu, fwavacc of a predicted against a ground-truth map
LabelAccuracyScore(lt, lp, n) ==
    LET classes == 0..(n - 1)
        total == Cardinality(ValidPixels(lt, n))
        diag == [c \in classes |-> Hist(lt, lp, n, c, c)]
        row == [c \in classes |-> RowSum(lt, lp, n, c)]
        col == [c \in classes |-> ColSum(lt, lp, n, c)]
        accs == [c \in classes |-> Frac(diag[c], row[c])]
        iu == [c \in classes |-> Frac(diag[c], row[c] + col[c] - diag[c])]
        \* freq[c] * iu[c] for the classes with freq[c] > 0
        weighted == [c \in classes |-> Frac(row[c] * iu[c].num, total * iu[c].den)]
    IN  [kind |-> "score",
         acc |-> Frac(Cardinality({k \in ValidPixels(lt, n) : lt[k] = lp[k]}), total),
         acc_cls |-> NanMean(accs, classes),
         mean_iu |-> NanMean(iu, classes),
         fwavacc |-> IF total = 0 THEN Frac(0, 0)
                     ELSE SumFrac(weighted, {c \in classes : row[c] > 0})]

\* the label maps of one call: a ground truth of classes and sentinels, a
\* prediction (an argmax over the class scores) of classes, of the same shape
InitMetrics ==
    /\ script = "label_accuracy_score"
    /\ n_class \in 1..MaxClass
    /\ \E len \in 1..MaxPixels :
          /\ label_true \in [1..len -> {IgnoreLabel} \cup (0..(n_class - 1))]
          /\ label_pred \in [1..len -> 0..(n_class - 1)]
    /\ score = NoScore
    /\ pc = "label_accuracy_score"
    /\ resume = ResumeNone
    /\ out_dir_exists = FALSE
    /\ iteration = 0
    /\ steps = 0
    /\ report = <<>>
    /\ eval_ret = NoOut
    /\ test_interval = 1
    /\ max_iter = 0
    /\ snapshot = 1
    /\ N_data = 0
    /\ i_iter = NoIter
    /\ model_train = FALSE
    /\ params = NoParams
    /\ optimizer = NoOptimizer
    /\ grads = "none"
    /\ model_out = NoOut
    /\ type = "none"
    /\ batch = NoIndex
    /\ ret = NoOut
    /\ indice = NoIndex
    /\ result = <<>>
    /\ logfile = FALSE
    /\ log = <<>>
    /\ log_dir_exists = FALSE
    /\ files = {}
    /\ trace = <<>>
    /\ runs = 1

\* Trainer._iterate_once: acc, acc_cls, iu, fwavacc =
\*     util.label_accuracy_score(label, label_pred, self.model.n_class)
ScoreLabels ==
    /\ script = "label_accuracy_score"
    /\ pc = "label_accuracy_score"
    /\ score' = LabelAccuracyScore(label_true, label_pred, n_class)
    /\ pc' = "returned"
    /\ UNCHANGED <<label_true, label_pred, n_class, mainvars, traineronly,
                   model_train, params, optimizer, log, files, trace, runs>>

SpecMetrics == InitMetrics /\ [][ScoreLabels]_vars

\* C12: when the predicted label map equals the ground-truth map and the
\* ground truth holds no ignored pixel, the pixel accuracy returned is 1 and
\* the mean IU returned is 1, whichever of the n_class classes occur in it.
C12_PerfectPrediction ==
    (pc = "returned" /\ label_pred = label_true
        /\ \A k \in 1..Len(label_true) : label_true[k] # IgnoreLabel) =>
       /\ IsOne(score.acc)
       /\ IsOne(score.mean_iu)

\* a perfect prediction of a map in which one of two classes does not occur
C12_Witness ==
    /\ pc = "returned" /\ n_class = 2 /\ Len(label_true) = 3
    /\ label_pred = label_true
    /\ \A k \in 1..3 : label_true[k] = 1
    /\ IsOne(score.mean_iu)

\* the validation pass under way: validate() has reset its accumulators and
\* not yet written its row
InPass ==
    /\ InTrainer
    /\ \/ pc \in {"val_loop", "val_append"}
       \/ InIterateOnce /\ type = "val"
\* the per-sample values of the validation samples 0..n-1 on parameters p
ValValues(n, p) == [k \in 1..n |-> Forward("val", k - 1, p)]
\* the forward passes made since validate() was last entered
PassForwards ==
    LET begun == OpsOf({"validate"})
        start == CHOOSE k \in begun : \A j \in begun : j <= k
    IN  {k \in OpsOf({"forward"}) : k > start}

\* C13: inside a validation pass the accumulators hold the values of the
\* samples 0..indice-1 of this pass, in this order and nothing else, each
\* sample having been evaluated once; the pass ends at indice = N_data and
\* the val row it writes holds the mean of the values of samples 0..N_data-1.
C13_ValidationPass ==
    /\ [](InPass =>
            /\ indice \in 0..N_data
            /\ result = ValValues(indice, params)
            /\ Cardinality(PassForwards) =
                  indice + (IF pc \in {"evaluate", "val_append"} THEN 1 ELSE 0)
            /\ pc = "val_append" => ret = Forward("val", indice, params))
    /\ [][(InTrainer /\ pc = "val_loop" /\ pc' = "train_step") =>
            /\ indice = N_data
            /\ log' = Append(log, Row(i_iter, "val",
                                      Mean(ValValues(N_data, params))))]_vars

\* the second validation pass, made after one update over two samples, has
\* written its row
C13_Witness ==
    /\ InTrainer /\ pc = "train_step" /\ N_data = 2 /\ Len(ValRows) = 2
    /\ ValRows[2].loss =
          Mean(ValValues(2, [updates |-> 1, decays |-> 1]))

\* TestModeEvaluator.evaluate called by the Evaluator's trigger on a model
\* whose flag and parameters are any
InitEvaluator ==
    /\ script = "train_fcn32s"
    /\ pc = "test_mode_evaluate"
    /\ model_train \in BOOLEAN
    /\ params \in [updates : 0..MaxIter, decays : 0..MaxIter]
    /\ optimizer = [t |-> params.updates]
    /\ iteration = EvalPeriod
    /\ steps = 0
    /\ report = <<>>
    /\ eval_ret = NoOut
    /\ resume = ResumeNone
    /\ out_dir_exists = TRUE
    /\ test_interval = 1
    /\ max_iter = 0
    /\ snapshot = 1
    /\ N_data = 0
    /\ i_iter = NoIter
    /\ grads = "none"
    /\ model_out = NoOut
    /\ type = "none"
    /\ batch = NoIndex
    /\ ret = NoOut
    /\ indice = NoIndex
    /\ result = <<>>
    /\ logfile = FALSE
    /\ log = <<>>
    /\ log_dir_exists = FALSE
    /\ files = {}
    /\ trace = <<>>
    /\ runs = 1
    /\ label_true = <<>>
    /\ label_pred = <<>>
    /\ n_class = 0
    /\ score = NoScore

NextEvaluator == EvaluateBegin \/ EvaluateSuper \/ EvaluateEnd

SpecEvaluator == InitEvaluator /\ [][NextEvaluator]_vars

\* the flag the model had when evaluate() was last entered
FlagAtEntry == trace[CHOOSE k \in OpsOf({"evaluate"}) :
                        \A j \in OpsOf({"evaluate"}) : j <= k].train

\* C14: while the wrapped evaluation runs the flag is False, and the result
\* it returns was computed with the flag False; the return of evaluate() sets
\* the flag True and hands on that result as it is, whether the flag was True
\* or False when evaluate() was entered.
C14_TestModeEvaluate ==
    /\ []((InMain /\ pc \in {"evaluate_super", "evaluate_end"}) => ~model_train)
    /\ []((InMain /\ pc = "evaluate_end") =>
             ret = [kind |-> "mean", train |-> FALSE,
                    updates |-> params.updates, decays |-> params.decays])
    /\ [][(InMain /\ pc = "evaluate_end") =>
             /\ model_train' = TRUE
             /\ eval_ret' = ret
             /\ UNCHANGED <<ret, params, optimizer>>]_vars

\* evaluate() entered with the flag False has returned: the flag is True
C14_Witness ==
    /\ InMain /\ pc = "ext_log" /\ OpsOf({"evaluate"}) # {}
    /\ FlagAtEntry = FALSE
    /\ model_train = TRUE
    /\ eval_ret = [kind |-> "mean", train |-> FALSE,
                   updates |-> params.updates, decays |-> params.decays]

\* the wrapped evaluation of the last evaluate() call raised
EvaluateRaised == trace # <<>> /\ Last(trace).op = "evaluate_failed"

\* C17: when the wrapped evaluation raises, evaluate() does nothing more: the
\* flag stays False, nothing is returned, logged or saved and the process
\* ends with the error; once evaluate() has been entered the flag is True
\* outside it exactly when the call returned.
C17_FlagNotRestoredOnFailure ==
    /\ [][(InMain /\ pc = "evaluate_super" /\ pc' # "evaluate_end") =>
             /\ pc' = "fatal"
             /\ model_train' = FALSE
             /\ UNCHANGED <<eval_ret, ret, report, log, files, params,
                            optimizer, iteration>>]_vars
    /\ []((InMain /\ EvaluateRaised) => pc = "fatal" /\ ~model_train)
    /\ []((InMain /\ OpsOf({"evaluate"}) # {}
                  /\ pc \notin {"evaluate_super", "evaluate_end"}) =>
             (model_train <=> ~EvaluateRaised))
    /\ [][(InMain /\ pc = "fatal") => pc' = "check_out_dir"]_vars

\* the evaluation made after 1000 updates raised and the process has ended
C17_Witness ==
    /\ InMain /\ pc = "fatal" /\ EvaluateRaised
    /\ iteration = EvalPeriod /\ params.updates = EvalPeriod
    /\ ~model_train

\* the parameters after n optimizer updates, each followed by its decay
ParamsAfter(n) == [updates |-> n, decays |-> n]
\* the model files in the log directory
ModelFiles == {f \in files : f.name[1] = "fcn8s_"}

\* C15: a validation pass of iteration i runs on the parameters after i
\* updates and the val row tagged i holds the mean of the values computed on
\* them; the model file tagged i holds the parameters after i + 1 updates, so
\* no model file holds the parameters the run started with.
C15_TagsAndVersions ==
    InTrainer =>
       /\ InValidate => params = ParamsAfter(i_iter)
       /\ pc = "save_model" => params = ParamsAfter(i_iter + 1)
       /\ logfile => \A k \in 1..Len(ValRows) :
             ValRows[k].loss =
                Mean(ValValues(N_data, ParamsAfter(ValRows[k].i_iter)))
       /\ \A f \in ModelFiles : f.content = ParamsAfter(f.name[2] + 1)
       /\ \A f \in ModelFiles : f.content # ParamsAfter(0)

\* iteration 2 has been validated on the parameters after 2 updates and
\* saved with the parameters after 3
C15_Witness ==
    /\ InTrainer /\ pc = "loop" /\ N_data > 0
    /\ \E k \in 1..Len(ValRows) :
          /\ ValRows[k].i_iter = 2
          /\ ValRows[k].loss = Mean(ValValues(N_data, ParamsAfter(2)))
    /\ [name |-> SnapshotModelName(2), content |-> ParamsAfter(3)] \in files
    /\ [name |-> SnapshotModelName(0), content |-> ParamsAfter(1)] \in files

\* the largest multiple of snapshot that is <= max_iter - 1
LastSnapshotTag == ((max_iter - 1) \div snapshot) * snapshot

\* C16: when train() has returned after at least one iteration, the last
\* snapshot written is the one tagged LastSnapshotTag, it holds the
\* parameters after LastSnapshotTag + 1 updates, and the parameters in memory
\* (after max_iter updates) are in a model file exactly when
\* (max_iter - 1) % snapshot = 0; the last step made is the training step of
\* iteration max_iter - 1 with its row and snapshot, no validation after it.
C16_FinalParamsOnDisk ==
    (InTrainer /\ pc = "done" /\ max_iter > 0) =>
       /\ params = ParamsAfter(max_iter)
       /\ Last(ItersOf("save_model")) = LastSnapshotTag
       /\ [name |-> SnapshotModelName(LastSnapshotTag),
           content |-> ParamsAfter(LastSnapshotTag + 1)] \in files
       /\ \A f \in ModelFiles : f.name[2] <= LastSnapshotTag
       /\ (\E f \in ModelFiles : f.content = params)
             <=> (max_iter - 1) % snapshot = 0
       /\ \A k \in OpsOf({"validate", "forward", "val_log"}) :
             \E j \in OpsOf({"update"}) : j > k /\ trace[j].i = max_iter - 1
       /\ Last(trace).op \in {"train_log", "save_optimizer"}
       /\ Last(trace).i = max_iter - 1

\* train() has returned with the updates of the last iteration in memory only
C16_Witness ==
    /\ InTrainer /\ pc = "done" /\ max_iter = 2 /\ snapshot = 2
    /\ params = ParamsAfter(2)
    /\ ModelFiles = {[name |-> SnapshotModelName(0), content |-> ParamsAfter(1)]}

====
